---- MODULE Spec2Model ----
(***************************************************************************)
(* commitz: one run of the command-line commit message generator           *)
(* (cmd/root.go).  Text is modelled as a sequence of characters, each      *)
(* character a one-element string, so that substring search, splitting,    *)
(* trimming and lower-casing are computed as the Go standard library       *)
(* computes them.  A glyph or a multi-byte character is one atom (for      *)
(* example "sparkles", "EUR").                                             *)
(***************************************************************************)
EXTENDS Integers, Sequences, FiniteSets

(***************************************************************************)
(* The strings package, on character sequences.                            *)
(***************************************************************************)

\* unicode.IsSpace on the characters that occur in the model
IsSpace(c) == c \in {" ", "\t", "\n", "\r"}

UpperChars == <<"A", "B", "C", "D", "E", "F", "G", "H", "I", "J", "K", "L", "M",
                "N", "O", "P", "Q", "R", "S", "T", "U", "V", "W", "X", "Y", "Z">>

LowerChars == <<"a", "b", "c", "d", "e", "f", "g", "h", "i", "j", "k", "l", "m",
                "n", "o", "p", "q", "r", "s", "t", "u", "v", "w", "x", "y", "z">>

LowerChar(c) ==
    IF \E i \in 1..Len(UpperChars) : UpperChars[i] = c
    THEN LowerChars[CHOOSE i \in 1..Len(UpperChars) : UpperChars[i] = c]
    ELSE c

\* strings.ToLower
ToLower(s) == [i \in 1..Len(s) |-> LowerChar(s[i])]

\* strings.Contains
Contains(s, sub) ==
    \E i \in 0..(Len(s) - Len(sub)) : SubSeq(s, i + 1, i + Len(sub)) = sub

\* strings.HasPrefix
HasPrefix(s, p) == Len(p) <= Len(s) /\ SubSeq(s, 1, Len(p)) = p

\* strings.HasSuffix
HasSuffix(s, p) == Len(p) <= Len(s) /\ SubSeq(s, Len(s) - Len(p) + 1, Len(s)) = p

\* strings.TrimPrefix
TrimPrefix(s, p) == IF HasPrefix(s, p) THEN SubSeq(s, Len(p) + 1, Len(s)) ELSE s

\* strings.TrimSuffix
TrimSuffix(s, p) == IF HasSuffix(s, p) THEN SubSeq(s, 1, Len(s) - Len(p)) ELSE s

\* strings.TrimSpace
RECURSIVE TrimLeft(_)
TrimLeft(s) ==
    IF s # <<>> /\ IsSpace(s[1]) THEN TrimLeft(Tail(s)) ELSE s

RECURSIVE TrimRight(_)
TrimRight(s) ==
    IF s # <<>> /\ IsSpace(s[Len(s)]) THEN TrimRight(SubSeq(s, 1, Len(s) - 1)) ELSE s

TrimSpace(s) == TrimRight(TrimLeft(s))

\* index of the first character of s satisfying nothing but equality with c, or 0
IndexChar(s, c) ==
    IF \E i \in 1..Len(s) : s[i] = c
    THEN CHOOSE i \in 1..Len(s) : s[i] = c /\ \A j \in 1..(i - 1) : s[j] # c
    ELSE 0

\* strings.Split(s, sep) for a one-character separator: Split("", sep) is <<"">>
RECURSIVE Split(_, _)
Split(s, sep) ==
    LET i == IndexChar(s, sep)
    IN  IF i = 0 THEN <<s>>
        ELSE <<SubSeq(s, 1, i - 1)>> \o Split(SubSeq(s, i + 1, Len(s)), sep)

\* strings.Fields: the maximal runs of non-space characters
RECURSIVE Fields(_)
Fields(s) ==
    IF s = <<>> THEN <<>>
    ELSE IF IsSpace(s[1]) THEN Fields(Tail(s))
    ELSE LET n == IF \E i \in 1..Len(s) : IsSpace(s[i])
                  THEN CHOOSE i \in 1..Len(s) :
                           IsSpace(s[i]) /\ \A j \in 1..(i - 1) : ~IsSpace(s[j])
                  ELSE Len(s) + 1
         IN  <<SubSeq(s, 1, n - 1)>> \o Fields(SubSeq(s, n, Len(s)))

\* strings.Join(lines, "\n")
RECURSIVE JoinLines(_)
JoinLines(lines) ==
    IF lines = <<>> THEN <<>>
    ELSE IF Len(lines) = 1 THEN lines[1]
    ELSE lines[1] \o <<"\n">> \o JoinLines(Tail(lines))

\* len(s) of Go: the number of bytes of the UTF-8 encoding.  "EUR" stands for
\* the three-byte character U+20AC; every other character of the model is ASCII.
RECURSIVE ByteLen(_)
ByteLen(s) ==
    IF s = <<>> THEN 0
    ELSE (IF s[1] = "EUR" THEN 3 ELSE 1) + ByteLen(Tail(s))

(***************************************************************************)
(* The commit types and the pure functions of cmd/root.go.                 *)
(***************************************************************************)

commitTypes ==
    << [Type |-> <<"f", "e", "a", "t">>, Emoji |-> <<"sparkles">>],
       [Type |-> <<"f", "i", "x">>, Emoji |-> <<"bug">>],
       [Type |-> <<"d", "o", "c", "s">>, Emoji |-> <<"memo">>],
       [Type |-> <<"s", "t", "y", "l", "e">>, Emoji |-> <<"lipstick">>],
       [Type |-> <<"r", "e", "f", "a", "c", "t", "o", "r">>, Emoji |-> <<"recycle">>],
       [Type |-> <<"p", "e", "r", "f">>, Emoji |-> <<"zap">>],
       [Type |-> <<"t", "e", "s", "t">>, Emoji |-> <<"check">>],
       [Type |-> <<"b", "u", "i", "l", "d">>, Emoji |-> <<"hammer">>],
       [Type |-> <<"c", "i">>, Emoji |-> <<"worker">>],
       [Type |-> <<"c", "h", "o", "r", "e">>, Emoji |-> <<"broom">> ] >>

\* detectCommitType with the test rule tried last instead of first
detectCommitTypeTestLast(diff) ==
    LET diffLower == ToLower(diff)
    IN  IF Contains(diff, <<"R", "E", "A", "D", "M", "E">>) \/ Contains(diff, <<".", "m", "d">>)
           \/ Contains(diff, <<"d", "o", "c", "s", "/">>)
        THEN <<"d", "o", "c", "s">>
        ELSE IF Contains(diffLower, <<"f", "i", "x">>) \/ Contains(diffLower, <<"b", "u", "g">>)
        THEN <<"f", "i", "x">>
        ELSE IF Contains(diffLower, <<"f", "e", "a", "t">>) \/ Contains(diffLower, <<"a", "d", "d", " ">>)
                \/ Contains(diffLower, <<"n", "e", "w", " ">>)
        THEN <<"f", "e", "a", "t">>
        ELSE IF Contains(diff, <<"t", "e", "s", "t", "/">>) \/ Contains(diff, <<"_", "t", "e", "s", "t", ".", "g", "o">>)
        THEN <<"t", "e", "s", "t">>
        ELSE <<"c", "h", "o", "r", "e">>

detectCommitType(diff) ==
    LET diffLower == ToLower(diff)
    IN  IF Contains(diff, <<"t", "e", "s", "t", "/">>) \/ Contains(diff, <<"_", "t", "e", "s", "t", ".", "g", "o">>)
        THEN <<"t", "e", "s", "t">>
        ELSE IF Contains(diff, <<"R", "E", "A", "D", "M", "E">>) \/ Contains(diff, <<".", "m", "d">>)
                \/ Contains(diff, <<"d", "o", "c", "s", "/">>)
        THEN <<"d", "o", "c", "s">>
        ELSE IF Contains(diffLower, <<"f", "i", "x">>) \/ Contains(diffLower, <<"b", "u", "g">>)
        THEN <<"f", "i", "x">>
        ELSE IF Contains(diffLower, <<"f", "e", "a", "t">>) \/ Contains(diffLower, <<"a", "d", "d", " ">>)
                \/ Contains(diffLower, <<"n", "e", "w", " ">>)
        THEN <<"f", "e", "a", "t">>
        ELSE <<"c", "h", "o", "r", "e">>

\* contains(slice, item)
contains(slice, item) == \E i \in 1..Len(slice) : slice[i] = item

\* getBaseName
getBaseName(filePath) ==
    LET parts == Split(filePath, "/")
        fileName == parts[Len(parts)]
    IN  TrimSuffix(TrimSuffix(TrimSuffix(TrimSuffix(fileName, <<".", "g", "o">>), <<".", "j", "s">>),
                              <<".", "t", "s">>), <<".", "m", "d">>)

\* the loop of generateSmartSummary that collects modifiedFiles, one line at a time
RECURSIVE scanModifiedFiles(_, _)
scanModifiedFiles(lines, files) ==
    IF lines = <<>> THEN files
    ELSE LET line == Head(lines)
             parts == Fields(line)
             fileName == TrimPrefix(TrimPrefix(parts[2], <<"b", "/">>), <<"a", "/">>)
             add == /\ HasPrefix(line, <<"+", "+", "+">>) \/ HasPrefix(line, <<"-", "-", "-">>)
                    /\ Len(parts) >= 2
                    /\ parts[2] # <<"/", "d", "e", "v", "/", "n", "u", "l", "l">>
                    /\ fileName # <<>>
                    /\ ~contains(files, fileName)
         IN  scanModifiedFiles(Tail(lines), IF add THEN Append(files, fileName) ELSE files)

extractModifiedFiles(diff) == scanModifiedFiles(Split(diff, "\n"), <<>>)

generateSmartSummary(diff, type) ==
    LET diffLower == ToLower(diff)
        files == extractModifiedFiles(diff)
    IN  CASE type = <<"f", "e", "a", "t">> ->
               IF Contains(diffLower, <<"i", "n", "t", "e", "r", "a", "c", "t", "i", "v", "e">>) THEN <<"a", "d", "d", " ", "i", "n", "t", "e", "r", "a", "c", "t", "i", "v", "e", " ", "m", "o", "d", "e">>
               ELSE IF Contains(diffLower, <<"a", "p", "i">>) THEN <<"a", "d", "d", " ", "A", "P", "I", " ", "e", "n", "d", "p", "o", "i", "n", "t", "s">>
               ELSE IF Len(files) > 0
                    THEN <<"a", "d", "d", " ">> \o getBaseName(files[1]) \o <<" ", "f", "u", "n", "c", "t", "i", "o", "n", "a", "l", "i", "t", "y">>
               ELSE <<"a", "d", "d", " ", "n", "e", "w", " ", "f", "e", "a", "t", "u", "r", "e">>
          [] type = <<"f", "i", "x">> ->
               IF Contains(diffLower, <<"b", "u", "g">>) \/ Contains(diffLower, <<"e", "r", "r", "o", "r">>)
               THEN <<"f", "i", "x", " ", "b", "u", "g", " ", "i", "n", " ", "e", "r", "r", "o", "r", " ", "h", "a", "n", "d", "l", "i", "n", "g">>
               ELSE IF Len(files) > 0 THEN <<"f", "i", "x", " ", "i", "s", "s", "u", "e", " ", "i", "n", " ">> \o getBaseName(files[1])
               ELSE <<"f", "i", "x", " ", "b", "u", "g">>
          [] type = <<"d", "o", "c", "s">> ->
               IF Contains(diffLower, <<"r", "e", "a", "d", "m", "e">>) THEN <<"u", "p", "d", "a", "t", "e", " ", "R", "E", "A", "D", "M", "E", " ", "d", "o", "c", "u", "m", "e", "n", "t", "a", "t", "i", "o", "n">>
               ELSE <<"u", "p", "d", "a", "t", "e", " ", "d", "o", "c", "u", "m", "e", "n", "t", "a", "t", "i", "o", "n">>
          [] type = <<"r", "e", "f", "a", "c", "t", "o", "r">> ->
               IF Len(files) > 0 THEN <<"r", "e", "f", "a", "c", "t", "o", "r", " ">> \o getBaseName(files[1])
               ELSE <<"r", "e", "f", "a", "c", "t", "o", "r", " ", "c", "o", "d", "e", " ", "s", "t", "r", "u", "c", "t", "u", "r", "e">>
          [] type = <<"t", "e", "s", "t">> -> <<"a", "d", "d", "/", "u", "p", "d", "a", "t", "e", " ", "t", "e", "s", "t", "s">>
          [] type = <<"s", "t", "y", "l", "e">> -> <<"i", "m", "p", "r", "o", "v", "e", " ", "c", "o", "d", "e", " ", "f", "o", "r", "m", "a", "t", "t", "i", "n", "g">>
          [] type = <<"p", "e", "r", "f">> -> <<"i", "m", "p", "r", "o", "v", "e", " ", "p", "e", "r", "f", "o", "r", "m", "a", "n", "c", "e">>
          [] type = <<"b", "u", "i", "l", "d">> ->
               IF Contains(diffLower, <<"g", "o", ".", "m", "o", "d">>) \/ Contains(diffLower, <<"g", "o", ".", "s", "u", "m">>)
               THEN <<"u", "p", "d", "a", "t", "e", " ", "d", "e", "p", "e", "n", "d", "e", "n", "c", "i", "e", "s">>
               ELSE <<"u", "p", "d", "a", "t", "e", " ", "b", "u", "i", "l", "d", " ", "c", "o", "n", "f", "i", "g", "u", "r", "a", "t", "i", "o", "n">>
          [] type = <<"c", "i">> -> <<"u", "p", "d", "a", "t", "e", " ", "C", "I", " ", "c", "o", "n", "f", "i", "g", "u", "r", "a", "t", "i", "o", "n">>
          [] type = <<"c", "h", "o", "r", "e">> ->
               IF Contains(diffLower, <<"c", "l", "e", "a", "n", "u", "p">>) THEN <<"c", "l", "e", "a", "n", "u", "p", " ", "c", "o", "d", "e">>
               ELSE <<"u", "p", "d", "a", "t", "e", " ", "p", "r", "o", "j", "e", "c", "t", " ", "f", "i", "l", "e", "s">>
          [] OTHER -> <<"u", "p", "d", "a", "t", "e", " ", "c", "h", "a", "n", "g", "e", "s">>

\* the validate closure of generateSummaryInteractive: TRUE when it returns nil
validate(input) == ByteLen(input) >= 3 /\ ByteLen(input) <= 72

\* getEmojiForType, given the --emoji flag
getEmojiForType(emojiFlag, type) ==
    IF ~emojiFlag THEN <<>>
    ELSE IF \E i \in 1..Len(commitTypes) : commitTypes[i].Type = type
    THEN commitTypes[CHOOSE i \in 1..Len(commitTypes) : commitTypes[i].Type = type].Emoji
         \o <<" ">>
    ELSE <<>>

\* buildCommitMessage without the test for an empty scope
buildCommitMessageAlwaysParens(emoji, type, scope, summary) ==
    emoji \o type \o <<"(">> \o scope \o <<")", ":", " ">> \o summary

buildCommitMessage(emoji, type, scope, summary) ==
    IF scope # <<>>
    THEN emoji \o type \o <<"(">> \o scope \o <<")", ":", " ">> \o summary
    ELSE emoji \o type \o <<":", " ">> \o summary

\* the part of extractScopeFromBranch after the branch command succeeded
scopeOfBranch(output) ==
    LET branchName == TrimSpace(output)
    IN  IF Contains(branchName, <<"/">>)
        THEN TrimSpace(Split(branchName, "/")[1])
        ELSE <<>>

\* the scanner loop of addDescriptionInteractive over the lines standard input
\* delivers: the bodyLines collected when the loop ends (break or end of input)
RECURSIVE scanBody(_, _, _)
scanBody(input, bodyLines, emptyLineCount) ==
    IF input = <<>> THEN bodyLines
    ELSE IF Head(input) = <<>>
    THEN IF emptyLineCount + 1 >= 2 \/ (Len(bodyLines) > 0 /\ emptyLineCount + 1 >= 1)
         THEN bodyLines
         ELSE scanBody(Tail(input), bodyLines, emptyLineCount + 1)
    ELSE scanBody(Tail(input), Append(bodyLines, Head(input)), 0)

\* the end of addDescriptionInteractive: the message with the body appended
appendBody(message, bodyLines) ==
    LET body == TrimSpace(JoinLines(bodyLines))
    IN  IF body # <<>> THEN message \o <<"\n", "\n">> \o body ELSE message

(***************************************************************************)
(* Inputs: what the environment and the operator can deliver in one run.   *)
(***************************************************************************)

\* the number of lines of a diff text given to the classifier
MaxLines == 2

\* lines a staged diff is made of: file headers and added lines
TextLines ==
    { <<"+", "+", "+", " ", "b", "/", "x", "_", "t", "e", "s", "t", ".", "g", "o">>, <<"-", "-", "-", " ", "a", "/", "t", "e", "s", "t", "/", "x", ".", "g", "o">>, <<"+", "+", "+", " ", "b", "/", "R", "E", "A", "D", "M", "E">>, <<"-", "-", "-", " ", "a", "/", "d", "o", "c", "s", "/", "x", ".", "t", "x", "t">>,
      <<"+", "+", "+", " ", "b", "/", "n", "o", "t", "e", "s", ".", "m", "d">>, <<"+", "F", "I", "X", " ", "i", "t">>, <<"+", "a", " ", "b", "u", "g">>, <<"+", "f", "e", "a", "t">>, <<"+", "a", "d", "d", " ", "x">>, <<"+", "n", "e", "w", " ", "x">>,
      <<"-", "-", "-", " ", "/", "d", "e", "v", "/", "n", "u", "l", "l">>, <<"-", "-", "-", " ", "a", "/", "a", "/", "x", ".", "g", "o">>, <<"+", "+", "+", " ", "b", "/", "a", "/", "x", ".", "g", "o">>, <<"+", "+", "+", " ", "b", "/", "x", ".", "g", "o">>,
      <<"-", "-", "-", " ", "a", "/", "x", ".", "g", "o">>, <<"+", "+", "+">>, <<"T", "e", "s", "t", "/", " ", "r", "e", "a", "d", "m", "e">> }

\* the diff texts of at most MaxLines lines (the empty text is the one of no line)
TextDiffs ==
    { JoinLines(ls) : ls \in UNION { [1..n -> TextLines] : n \in 0..MaxLines } }

\* results of "git diff --cached" in a run: failure, no output, or a diff
DiffResults ==
    { [err |-> TRUE, out |-> <<>>],
      [err |-> FALSE, out |-> <<>>],
      [err |-> FALSE, out |-> <<"-", "-", "-", " ", "a", "/", "c", "m", "d", "/", "r", "o", "o", "t", ".", "g", "o", "\n", "+", "+", "+", " ", "b", "/", "c", "m", "d", "/", "r", "o", "o", "t", ".", "g", "o", "\n", "+", "a", "d", "d", " ", "n", "e", "w", " ", "f", "l", "a", "g", "\n">>],
      [err |-> FALSE, out |-> <<"-", "-", "-", " ", "a", "/", "R", "E", "A", "D", "M", "E", ".", "m", "d", "\n", "+", "+", "+", " ", "b", "/", "R", "E", "A", "D", "M", "E", ".", "m", "d", "\n", "+", "f", "i", "x", " ", "t", "y", "p", "o", "\n">>],
      [err |-> FALSE, out |-> <<"-", "-", "-", " ", "/", "d", "e", "v", "/", "n", "u", "l", "l", "\n", "+", "+", "+", " ", "b", "/", "c", "m", "d", "/", "r", "o", "o", "t", "_", "t", "e", "s", "t", ".", "g", "o", "\n">>] }

\* results of "git branch --show-current"
BranchResults ==
    { [err |-> TRUE, out |-> <<>>],
      [err |-> FALSE, out |-> <<"m", "a", "i", "n", "\n">>],
      [err |-> FALSE, out |-> <<"f", "e", "a", "t", "u", "r", "e", "/", "l", "o", "g", "i", "n", "-", "p", "a", "g", "e", "\n">>] }

\* values of the --type flag: absent, a known tag, an unknown word
TypeFlags == { <<>>, <<"p", "e", "r", "f">>, <<"w", "i", "p">> }

\* values of the --scope flag
ScopeFlags == { <<>>, <<"a", "p", "i">> }

\* the directories of getCommonScopes that os.Stat finds, in the order of dirs
DirResults == { <<>>, << <<"c", "m", "d">> >> }

\* what the operator types at the summary prompt (the suggestion is the default)
SummaryInputs ==
    { <<" ", " ", " ">>, <<"a", "b">>, <<"EUR">>, <<"f", "i", "x", " ", "l", "o", "g", "i", "n">>,
      [i \in 1..72 |-> "x"], [i \in 1..73 |-> "x"] }

\* the lines standard input delivers to the description scanner
StdinInputs ==
    { <<>>,
      << <<>>, <<>> >>,
      << <<" ", " ">>, <<>> >>,
      << <<>>, <<"w", "h", "y">>, <<" ", "h", "o", "w", " ">>, <<>>, <<"l", "a", "t", "e">> >> }

\* results of a promptui confirmation prompt (IsConfirm, no default): an answer
\* other than y is returned as an error, as is an interrupt
ConfirmResults ==
    { [result |-> <<"y">>, err |-> "nil"],
      [result |-> <<"Y">>, err |-> "nil"],
      [result |-> <<"n">>, err |-> "abort"],
      [result |-> <<>>, err |-> "abort"],
      [result |-> <<>>, err |-> "interrupt"] }

\* the token fmt.Scanln reads at the non-interactive confirmation
ScanlnInputs == { <<"y">>, <<"Y">>, <<>>, <<"n">>, <<"y", "e", "s">> }

(***************************************************************************)
(* The run: generateCommitMessage as a sequence of steps, one per call     *)
(* that waits for the environment or the operator.                         *)
(***************************************************************************)

VARIABLES
    commitType, commitScope, useEmoji, dryRun, interactive,  \* the flags
    pc,             \* the step generateCommitMessage is at
    diffStr,        \* the staged diff
    selectedType, selectedScope, selectedEmoji,
    modifiedFiles,  \* of generateSmartSummary
    summary,
    header,         \* the result of buildCommitMessage
    bodyLines,      \* the description lines the scanner collected
    message,        \* the message after addDescriptionInteractive
    exitCode,       \* -1 while the process runs
    commands,       \* the git commands run, in order, each with whether it failed
    commitInput,    \* what git commit received on standard input
    prompts,        \* the prompts and reads the operator was given, in order
    confirmAnswer,  \* the answer at the commit confirmation and its error
    notices,        \* the notices printed, in order
    cancelledAt     \* the prompt the operator interrupted, or "none"

flags == <<commitType, commitScope, useEmoji, dryRun, interactive>>

vars == <<commitType, commitScope, useEmoji, dryRun, interactive, pc, diffStr,
          selectedType, selectedScope, selectedEmoji, modifiedFiles, summary,
          header, bodyLines, message, exitCode, commands, commitInput, prompts,
          confirmAnswer, notices, cancelledAt>>

\* the package variables after init and flag parsing, before Run
InitRun ==
    /\ selectedType = <<>>
    /\ selectedScope = <<>>
    /\ selectedEmoji = <<>>
    /\ modifiedFiles = <<>>
    /\ summary = <<>>
    /\ header = <<>>
    /\ bodyLines = <<>>
    /\ message = <<>>
    /\ exitCode = -1
    /\ commands = <<>>
    /\ commitInput = <<>>
    /\ prompts = <<>>
    /\ confirmAnswer = [result |-> <<>>, err |-> "none"]
    /\ notices = <<>>
    /\ cancelledAt = "none"

Init ==
    /\ commitType \in TypeFlags
    /\ commitScope \in ScopeFlags
    /\ useEmoji \in BOOLEAN
    /\ dryRun \in BOOLEAN
    /\ interactive \in BOOLEAN
    /\ pc = "start"
    /\ diffStr = <<>>
    /\ InitRun

\* os.Exit(code), or the return of generateCommitMessage (code 0)
Exit(code, how) ==
    /\ exitCode' = code
    /\ pc' = how

\* lines 108-120 without the test for an empty diff
GetDiffNoEmptyCheck ==
    /\ pc = "start"
    /\ \E r \in DiffResults :
        /\ commands' = Append(commands, [name |-> "diff", failed |-> r.err])
        /\ IF r.err
           THEN /\ notices' = Append(notices, "DiffError")
                /\ Exit(1, "exited")
                /\ UNCHANGED diffStr
           ELSE /\ diffStr' = r.out
                /\ pc' = IF interactive THEN "selectType" ELSE "autoDetect"
                /\ UNCHANGED <<notices, exitCode>>
    /\ UNCHANGED <<bodyLines, confirmAnswer>>
    /\ UNCHANGED <<flags, selectedType, selectedScope, selectedEmoji, modifiedFiles,
                   summary, header, message, commitInput, prompts, cancelledAt>>

\* lines 108-120: read the staged diff
GetDiff ==
    /\ pc = "start"
    /\ \E r \in DiffResults :
        /\ commands' = Append(commands, [name |-> "diff", failed |-> r.err])
        /\ IF r.err
           THEN /\ notices' = Append(notices, "DiffError")
                /\ Exit(1, "exited")
                /\ UNCHANGED diffStr
           ELSE IF Len(r.out) = 0
           THEN /\ notices' = Append(notices, "NoStagedChanges")
                /\ Exit(0, "exited")
                /\ UNCHANGED diffStr
           ELSE /\ diffStr' = r.out
                /\ pc' = IF interactive THEN "selectType" ELSE "autoDetect"
                /\ UNCHANGED <<notices, exitCode>>
    /\ UNCHANGED <<bodyLines, confirmAnswer>>
    /\ UNCHANGED <<flags, selectedType, selectedScope, selectedEmoji, modifiedFiles,
                   summary, header, message, commitInput, prompts, cancelledAt>>

\* selectCommitTypeInteractive
SelectType ==
    /\ pc = "selectType"
    /\ prompts' = Append(prompts, "type")
    /\ \/ /\ cancelledAt' = "type"
          /\ notices' = Append(notices, "SelectionCancelled")
          /\ Exit(0, "exited")
          /\ UNCHANGED <<selectedType, selectedEmoji>>
       \/ \E idx \in 1..Len(commitTypes) :
          /\ selectedType' = commitTypes[idx].Type
          /\ selectedEmoji' = IF useEmoji THEN commitTypes[idx].Emoji \o <<" ">>
                              ELSE <<>>
          /\ pc' = "selectScope"
          /\ UNCHANGED <<cancelledAt, notices, exitCode>>
    /\ UNCHANGED <<bodyLines, confirmAnswer>>
    /\ UNCHANGED <<flags, diffStr, selectedScope, modifiedFiles, summary, header,
                   message, commands, commitInput>>

\* extractScopeFromBranch, given the result of the branch command
extractScopeFromBranch(r) == IF r.err THEN <<>> ELSE scopeOfBranch(r.out)

\* getCommonScopes, given the directories found
getCommonScopes(found) == found \o << <<"c", "o", "r", "e">>, <<"d", "e", "p", "s">>, <<"c", "i">> >>

\* the items of the scope prompt
scopeItems(branchScope, found) ==
    (IF branchScope # <<>> THEN << branchScope \o <<" ", "(", "f", "r", "o", "m", " ", "b", "r", "a", "n", "c", "h", ")">> >> ELSE <<>>)
    \o getCommonScopes(found) \o << <<"S", "k", "i", "p", " ", "(", "n", "o", " ", "s", "c", "o", "p", "e", ")">> >>

\* selectScopeInteractive
SelectScope ==
    /\ pc = "selectScope"
    /\ prompts' = Append(prompts, "scope")
    /\ \E b \in BranchResults, found \in DirResults :
        /\ commands' = Append(commands, [name |-> "branch", failed |-> b.err])
        /\ LET items == scopeItems(extractScopeFromBranch(b), found)
           IN  \/ /\ cancelledAt' = "scope"
                  /\ selectedScope' = <<>>
               \/ \E i \in 1..Len(items) :
                  /\ selectedScope' = IF Contains(items[i], <<"S", "k", "i", "p">>) THEN <<>>
                                      ELSE TrimSuffix(items[i], <<" ", "(", "f", "r", "o", "m", " ", "b", "r", "a", "n", "c", "h", ")">>)
                  /\ UNCHANGED cancelledAt
    /\ pc' = "summary"
    /\ UNCHANGED <<bodyLines, confirmAnswer>>
    /\ UNCHANGED <<flags, diffStr, selectedType, selectedEmoji, modifiedFiles, summary,
                   header, message, exitCode, commitInput, notices>>

\* lines 132-135 without the --type override
autoTypeIgnoringFlag(diff, flag) == detectCommitType(diff)

\* lines 132-135: the detected type, unless --type is given
autoType(diff, flag) == IF flag # <<>> THEN flag ELSE detectCommitType(diff)

\* lines 131-143: the non-interactive choice of type, scope and emoji
AutoDetect ==
    /\ pc = "autoDetect"
    /\ selectedType' = autoType(diffStr, commitType)
    /\ \E b \in BranchResults :
        /\ commands' = Append(commands, [name |-> "branch", failed |-> b.err])
        /\ selectedScope' = IF commitScope # <<>> THEN commitScope
                            ELSE extractScopeFromBranch(b)
    /\ selectedEmoji' = getEmojiForType(useEmoji, selectedType')
    /\ pc' = "summary"
    /\ UNCHANGED <<bodyLines, confirmAnswer>>
    /\ UNCHANGED <<flags, diffStr, modifiedFiles, summary, header, message, exitCode,
                   commitInput, prompts, notices, cancelledAt>>

\* lines 146-152: generateSummaryInteractive, buildCommitMessage and
\* displaySuggestedMessage.  The prompt returns only an input that validate
\* accepts (it keeps asking otherwise), or an error when interrupted.
SummaryStep ==
    /\ pc = "summary"
    /\ modifiedFiles' = extractModifiedFiles(diffStr)
    /\ LET suggestion == generateSmartSummary(diffStr, selectedType)
           composed(s) ==
               /\ summary' = s
               /\ header' = buildCommitMessage(selectedEmoji, selectedType,
                                               selectedScope, s)
               /\ notices' = Append(notices, "Suggested")
               /\ pc' = "description"
               /\ UNCHANGED <<exitCode, cancelledAt>>
       IN  IF ~interactive
           THEN composed(suggestion) /\ UNCHANGED prompts
           ELSE /\ prompts' = Append(prompts, "summary")
                /\ \/ /\ cancelledAt' = "summary"
                      /\ notices' = Append(notices, "InputCancelled")
                      /\ Exit(0, "exited")
                      /\ UNCHANGED <<summary, header>>
                   \/ \E input \in SummaryInputs \cup {suggestion} :
                      /\ validate(input)
                      /\ composed(TrimSpace(input))
    /\ UNCHANGED <<bodyLines, confirmAnswer>>
    /\ UNCHANGED <<flags, diffStr, selectedType, selectedScope, selectedEmoji, message,
                   commands, commitInput>>

\* addDescriptionInteractive
DescriptionStep ==
    /\ pc = "description"
    /\ LET readBody ==
               \E input \in StdinInputs :
                   /\ bodyLines' = scanBody(input, <<>>, 0)
                   /\ message' = appendBody(header, bodyLines')
       IN  IF interactive
           THEN \E q \in ConfirmResults :
                IF q.err # "nil" \/ ToLower(q.result) # <<"y">>
                THEN /\ message' = header
                     /\ UNCHANGED bodyLines
                     /\ prompts' = Append(prompts, "descriptionQuestion")
                     /\ cancelledAt' = IF q.err = "interrupt" THEN "descriptionQuestion"
                                       ELSE cancelledAt
                ELSE /\ readBody
                     /\ prompts' = prompts \o <<"descriptionQuestion", "description">>
                     /\ UNCHANGED cancelledAt
           ELSE /\ readBody
                /\ prompts' = Append(prompts, "description")
                /\ UNCHANGED cancelledAt
    /\ pc' = "finish"
    /\ UNCHANGED confirmAnswer
    /\ UNCHANGED <<flags, diffStr, selectedType, selectedScope, selectedEmoji,
                   modifiedFiles, summary, header, exitCode, commands, commitInput,
                   notices>>

\* lines 158-163 without the return: the run goes on to confirm and commit
DryRunStepFallsThrough ==
    /\ pc = "finish"
    /\ dryRun
    /\ notices' = notices \o <<"DryRun", "Proposed">>
    /\ prompts' = Append(prompts, "confirm")
    /\ pc' = "commit"
    /\ UNCHANGED <<bodyLines, confirmAnswer>>
    /\ UNCHANGED <<flags, diffStr, selectedType, selectedScope, selectedEmoji,
                   modifiedFiles, summary, header, message, exitCode, commands,
                   commitInput, cancelledAt>>

\* lines 158-163: --dry-run prints the message and returns
DryRunStep ==
    /\ pc = "finish"
    /\ dryRun
    /\ notices' = notices \o <<"DryRun", "Proposed">>
    /\ Exit(0, "returned")
    /\ UNCHANGED <<bodyLines, confirmAnswer>>
    /\ UNCHANGED <<flags, diffStr, selectedType, selectedScope, selectedEmoji,
                   modifiedFiles, summary, header, message, commands, commitInput,
                   prompts, cancelledAt>>

\* lines 166-170 with a confirmation that takes every answer but n as a yes
ConfirmStepUnlessNo ==
    /\ pc = "finish"
    /\ ~dryRun
    /\ prompts' = Append(prompts, "confirm")
    /\ LET proceed ==
               /\ pc' = "commit"
               /\ UNCHANGED <<notices, exitCode>>
           giveUp ==
               /\ notices' = Append(notices, "CommitCancelled")
               /\ Exit(0, "returned")
       IN  IF ~interactive
           THEN /\ \E token \in ScanlnInputs :
                    LET confirm == ToLower(TrimSpace(token))
                    IN  /\ confirmAnswer' = [result |-> token, err |-> "nil"]
                        /\ IF confirm # <<"n">> THEN proceed ELSE giveUp
                /\ UNCHANGED cancelledAt
           ELSE \E q \in ConfirmResults :
                /\ confirmAnswer' = q
                /\ cancelledAt' = IF q.err = "interrupt" THEN "confirm" ELSE cancelledAt
                /\ IF q.err # "nil" THEN giveUp
                   ELSE IF ToLower(q.result) = <<"y">> \/ q.result = <<>> THEN proceed
                   ELSE giveUp
    /\ UNCHANGED bodyLines
    /\ UNCHANGED <<flags, diffStr, selectedType, selectedScope, selectedEmoji,
                   modifiedFiles, summary, header, message, commands, commitInput>>

\* lines 166-170 with confirmCommitInteractive: ask, then commit or give up
ConfirmStep ==
    /\ pc = "finish"
    /\ ~dryRun
    /\ prompts' = Append(prompts, "confirm")
    /\ LET proceed ==
               /\ pc' = "commit"
               /\ UNCHANGED <<notices, exitCode>>
           giveUp ==
               /\ notices' = Append(notices, "CommitCancelled")
               /\ Exit(0, "returned")
       IN  IF ~interactive
           THEN /\ \E token \in ScanlnInputs :
                    LET confirm == ToLower(TrimSpace(token))
                    IN  /\ confirmAnswer' = [result |-> token, err |-> "nil"]
                        /\ IF confirm = <<"y">> \/ confirm = <<>> THEN proceed ELSE giveUp
                /\ UNCHANGED cancelledAt
           ELSE \E q \in ConfirmResults :
                /\ confirmAnswer' = q
                /\ cancelledAt' = IF q.err = "interrupt" THEN "confirm" ELSE cancelledAt
                /\ IF q.err # "nil" THEN giveUp
                   ELSE IF ToLower(q.result) = <<"y">> \/ q.result = <<>> THEN proceed
                   ELSE giveUp
    /\ UNCHANGED bodyLines
    /\ UNCHANGED <<flags, diffStr, selectedType, selectedScope, selectedEmoji,
                   modifiedFiles, summary, header, message, commands, commitInput>>

\* executeCommit without the os.Exit(1) after a failed command
ExecuteCommitIgnoresFailure ==
    /\ pc = "commit"
    /\ commitInput' = message
    /\ \/ /\ commands' = Append(commands, [name |-> "commit", failed |-> TRUE])
          /\ notices' = notices \o <<"CommitFailed", "CommitSuccessful">>
          /\ Exit(0, "returned")
       \/ /\ commands' = Append(commands, [name |-> "commit", failed |-> FALSE])
          /\ notices' = Append(notices, "CommitSuccessful")
          /\ Exit(0, "returned")
    /\ UNCHANGED <<bodyLines, confirmAnswer>>
    /\ UNCHANGED <<flags, diffStr, selectedType, selectedScope, selectedEmoji,
                   modifiedFiles, summary, header, message, prompts, cancelledAt>>

\* executeCommit
ExecuteCommit ==
    /\ pc = "commit"
    /\ commitInput' = message
    /\ \/ /\ commands' = Append(commands, [name |-> "commit", failed |-> TRUE])
          /\ notices' = Append(notices, "CommitFailed")
          /\ Exit(1, "exited")
       \/ /\ commands' = Append(commands, [name |-> "commit", failed |-> FALSE])
          /\ notices' = Append(notices, "CommitSuccessful")
          /\ Exit(0, "returned")
    /\ UNCHANGED <<bodyLines, confirmAnswer>>
    /\ UNCHANGED <<flags, diffStr, selectedType, selectedScope, selectedEmoji,
                   modifiedFiles, summary, header, message, prompts, cancelledAt>>

Next ==
    \/ GetDiff
    \/ SelectType
    \/ SelectScope
    \/ AutoDetect
    \/ SummaryStep
    \/ DescriptionStep
    \/ DryRunStep
    \/ ConfirmStep
    \/ ExecuteCommit

Spec == Init /\ [][Next]_vars

(***************************************************************************)
(* The classifier alone: detectCommitType and generateSmartSummary applied *)
(* to every diff text of at most MaxLines lines.                           *)
(***************************************************************************)

InitClassify ==
    /\ commitType = <<>>
    /\ commitScope = <<>>
    /\ useEmoji = FALSE
    /\ dryRun = FALSE
    /\ interactive = FALSE
    /\ pc = "classify"
    /\ diffStr \in TextDiffs
    /\ InitRun

\* line 132: selectedType = detectCommitType(diffStr)
Classify ==
    /\ pc = "classify"
    /\ selectedType' = detectCommitType(diffStr)
    /\ pc' = "suggest"
    /\ UNCHANGED <<bodyLines, confirmAnswer>>
    /\ UNCHANGED <<flags, diffStr, selectedScope, selectedEmoji, modifiedFiles, summary,
                   header, message, exitCode, commands, commitInput, prompts, notices,
                   cancelledAt>>

\* line 371: suggestion := generateSmartSummary(diff, commitType)
SuggestSummary ==
    /\ pc = "suggest"
    /\ modifiedFiles' = extractModifiedFiles(diffStr)
    /\ summary' = generateSmartSummary(diffStr, selectedType)
    /\ pc' = "classified"
    /\ UNCHANGED <<bodyLines, confirmAnswer>>
    /\ UNCHANGED <<flags, diffStr, selectedType, selectedScope, selectedEmoji, header,
                   message, exitCode, commands, commitInput, prompts, notices,
                   cancelledAt>>

NextClassify ==
    \/ Classify
    \/ SuggestSummary

SpecClassify == InitClassify /\ [][NextClassify]_vars

(***************************************************************************)
(* Properties.                                                             *)
(***************************************************************************)

HasNotice(n) == \E i \in 1..Len(notices) : notices[i] = n

HasPrompt(p) == \E i \in 1..Len(prompts) : prompts[i] = p

Ran(cmd) == \E i \in 1..Len(commands) : commands[i].name = cmd

Failed(cmd) == \E i \in 1..Len(commands) : commands[i].name = cmd /\ commands[i].failed

Count(c, s) == Cardinality({i \in 1..Len(s) : s[i] = c})

\* the run has composed and displayed the message header
Composed == HasNotice("Suggested")

Finished == pc \in {"exited", "returned"}

TypeTags == { commitTypes[i].Type : i \in 1..Len(commitTypes) }

Glyphs == { commitTypes[i].Emoji[1] : i \in 1..Len(commitTypes) }

\* the type read back from a rendered message: after the glyph and its space, if
\* any, the text before the first "(" or ":"
RenderedType(msg) ==
    LET rest == IF Len(msg) >= 2 /\ msg[1] \in Glyphs THEN SubSeq(msg, 3, Len(msg))
                ELSE msg
        stop == CHOOSE i \in 1..(Len(rest) + 1) :
                    /\ i = Len(rest) + 1 \/ rest[i] \in {"(", ":"}
                    /\ \A j \in 1..(i - 1) : rest[j] \notin {"(", ":"}
    IN  SubSeq(rest, 1, stop - 1)

HasTestMarker(d) == Contains(d, <<"t", "e", "s", "t", "/">>) \/ Contains(d, <<"_", "t", "e", "s", "t", ".", "g", "o">>)

HasDocsMarker(d) ==
    Contains(d, <<"R", "E", "A", "D", "M", "E">>) \/ Contains(d, <<".", "m", "d">>) \/ Contains(d, <<"d", "o", "c", "s", "/">>)

HasFixWord(d) == Contains(ToLower(d), <<"f", "i", "x">>) \/ Contains(ToLower(d), <<"b", "u", "g">>)

HasFeatWord(d) ==
    \/ Contains(ToLower(d), <<"f", "e", "a", "t">>)
    \/ Contains(ToLower(d), <<"a", "d", "d", " ">>)
    \/ Contains(ToLower(d), <<"n", "e", "w", " ">>)

\* C1: the classifier returns the result of the first rule that matches, in the
\* order test, docs, fix, feat, and chore when none does; a diff with a test-path
\* marker is test whatever else it holds, and the empty diff is chore.
C1_FirstMatchingRule ==
    pc \in {"suggest", "classified"} =>
        /\ HasTestMarker(diffStr) => selectedType = <<"t", "e", "s", "t">>
        /\ ~HasTestMarker(diffStr) /\ HasDocsMarker(diffStr) => selectedType = <<"d", "o", "c", "s">>
        /\ ~HasTestMarker(diffStr) /\ ~HasDocsMarker(diffStr) /\ HasFixWord(diffStr)
              => selectedType = <<"f", "i", "x">>
        /\ ~HasTestMarker(diffStr) /\ ~HasDocsMarker(diffStr) /\ ~HasFixWord(diffStr)
              /\ HasFeatWord(diffStr) => selectedType = <<"f", "e", "a", "t">>
        /\ ~HasTestMarker(diffStr) /\ ~HasDocsMarker(diffStr) /\ ~HasFixWord(diffStr)
              /\ ~HasFeatWord(diffStr) => selectedType = <<"c", "h", "o", "r", "e">>
        /\ diffStr = <<>> => selectedType = <<"c", "h", "o", "r", "e">>

\* a diff with a test marker, a documentation marker and a fix word, classified test
C1_Witness ==
    /\ pc = "classified"
    /\ HasTestMarker(diffStr)
    /\ HasDocsMarker(diffStr)
    /\ selectedType = <<"t", "e", "s", "t">>

\* C2: the composed header is emoji, type, "(scope): " and summary when the scope
\* is non-empty, and emoji, type, ": " and summary when it is empty; composing
\* with an empty scope adds no parenthesis.
C2_MessageFormat ==
    Composed =>
        /\ selectedScope # <<>> =>
              header = selectedEmoji \o selectedType \o <<"(">> \o selectedScope
                       \o <<")", ":", " ">> \o summary
        /\ selectedScope = <<>> =>
              /\ header = selectedEmoji \o selectedType \o <<":", " ">> \o summary
              /\ Count("(", header) = Count("(", selectedType \o summary)
              /\ Count(")", header) = Count(")", selectedType \o summary)

\* a header composed with a glyph and without scope
C2_Witness ==
    /\ Composed
    /\ selectedScope = <<>>
    /\ selectedEmoji # <<>>
    /\ summary # <<>>
    /\ header = selectedEmoji \o selectedType \o <<":", " ">> \o summary

\* C3: in interactive mode an interrupt at any prompt aborts the run: the
\* interrupted prompt is the last one, no commit is made, and the exit code is 0.
C3_CancelAborts ==
    interactive /\ cancelledAt # "none" =>
        /\ Finished
        /\ exitCode = 0
        /\ prompts[Len(prompts)] = cancelledAt
        /\ ~Ran("commit")

\* C4: the summary given to buildCommitMessage is not empty, and in interactive
\* mode it has between 3 and 72 characters.
C4_SummaryBounds ==
    Composed =>
        /\ summary # <<>>
        /\ interactive => Len(summary) >= 3 /\ Len(summary) <= 72

\* C5 as claimed: with a non-empty --type the rendered type is that tag, with or
\* without --interactive.
C5_TypeFlagOverrides ==
    Composed /\ commitType # <<>> => RenderedType(header) = commitType

\* C5 as amended: with a non-empty --type and without --interactive the rendered
\* type is that tag, whatever the classifier would have chosen.
C5_TypeFlagOverridesAuto ==
    Composed /\ commitType # <<>> /\ ~interactive => RenderedType(header) = commitType

\* a non-interactive run where the flag replaced a different detected type
C5_Witness ==
    /\ Composed
    /\ ~interactive
    /\ commitType = <<"p", "e", "r", "f">>
    /\ detectCommitType(diffStr) = <<"d", "o", "c", "s">>
    /\ RenderedType(header) = <<"p", "e", "r", "f">>

C7_DiffFailureOrEmpty ==
    Ran("diff") /\ (Failed("diff") \/ diffStr = <<>>) =>
        /\ pc = "exited"
        /\ exitCode = IF Failed("diff") THEN 1 ELSE 0
        /\ Len(commands) = 1
        /\ prompts = <<>>
        /\ selectedType = <<>>
        /\ ~Composed

\* the run that found nothing staged
C7_Witness ==
    /\ Ran("diff")
    /\ ~Failed("diff")
    /\ diffStr = <<>>
    /\ pc = "exited"
    /\ exitCode = 0

\* C8: the type in the rendered message is one of the ten tags of commitTypes.
C8_TypeInClosedSet ==
    Composed => RenderedType(header) \in TypeTags

\* C9: a failed commit command ends the run with exit code 1, without a second
\* attempt and without the success notice; a successful one ends the run normally.
C9_CommitFailureFatal ==
    Ran("commit") =>
        /\ Count("commit", [i \in 1..Len(commands) |-> commands[i].name]) = 1
        /\ Finished
        /\ Failed("commit") =>
              /\ pc = "exited"
              /\ exitCode = 1
              /\ ~HasNotice("CommitSuccessful")
        /\ ~Failed("commit") =>
              /\ pc = "returned"
              /\ exitCode = 0
              /\ HasNotice("CommitSuccessful")

\* a run whose commit command failed
C9_Witness ==
    /\ Failed("commit")
    /\ exitCode = 1
    /\ HasNotice("CommitFailed")

\* the second field of each "+++" or "---" line of a diff, in order
RECURSIVE headerPaths(_)
headerPaths(lines) ==
    IF lines = <<>> THEN <<>>
    ELSE LET line == Head(lines)
             parts == Fields(line)
         IN  (IF (HasPrefix(line, <<"+", "+", "+">>) \/ HasPrefix(line, <<"-", "-", "-">>)) /\ Len(parts) >= 2
              THEN <<parts[2]>> ELSE <<>>)
             \o headerPaths(Tail(lines))

\* a header path without the one "a/" or "b/" that the diff tool put before it
stripDiffPrefix(p) ==
    IF HasPrefix(p, <<"a", "/">>) \/ HasPrefix(p, <<"b", "/">>) THEN SubSeq(p, 3, Len(p)) ELSE p

\* the touched files of a sequence of header paths: no sentinel, no diff prefix,
\* each path at its first occurrence
RECURSIVE touchedFiles(_, _)
touchedFiles(paths, seen) ==
    IF paths = <<>> THEN seen
    ELSE LET p == stripDiffPrefix(Head(paths))
         IN  touchedFiles(Tail(paths),
                          IF Head(paths) = <<"/", "d", "e", "v", "/", "n", "u", "l", "l">> \/ p = <<>> \/ contains(seen, p)
                          THEN seen ELSE Append(seen, p))

\* C10: the touched files are the header paths without their diff prefix, each
\* once, in order of first occurrence, without the sentinel /dev/null.
C10_TouchedFilesOnce ==
    pc = "classified" =>
        /\ modifiedFiles = touchedFiles(headerPaths(Split(diffStr, "\n")), <<>>)
        /\ \A i, j \in 1..Len(modifiedFiles) :
              modifiedFiles[i] = modifiedFiles[j] => i = j
        /\ ~contains(modifiedFiles, <<"/", "d", "e", "v", "/", "n", "u", "l", "l">>)

\* C11: git commit is run at most once, only in a run without --dry-run and after
\* the confirmation was answered y or with empty input; what it receives is the
\* composed header, followed by a blank line and the trimmed description when the
\* description entered is not empty.
C11_CommitOnceAfterConfirm ==
    /\ Count("commit", [i \in 1..Len(commands) |-> commands[i].name]) <= 1
    /\ Ran("commit") \/ pc = "commit" =>
          /\ ~dryRun
          /\ Composed
          /\ Count("confirm", prompts) = 1
          /\ prompts[Len(prompts)] = "confirm"
          /\ confirmAnswer.err = "nil"
          /\ ToLower(confirmAnswer.result) = <<"y">> \/ confirmAnswer.result = <<>>
    /\ Ran("commit") =>
          LET body == TrimSpace(JoinLines(bodyLines))
          IN  /\ commands[Len(commands)].name = "commit"
              /\ body = <<>> => commitInput = header
              /\ body # <<>> => commitInput = header \o <<"\n", "\n">> \o body
              /\ header = buildCommitMessage(selectedEmoji, selectedType,
                                             selectedScope, summary)

\* a commit made after an empty answer, with a two-line description whose second
\* line lost its surrounding spaces
C11_Witness ==
    /\ Ran("commit")
    /\ ~Failed("commit")
    /\ confirmAnswer.result = <<>>
    /\ Len(bodyLines) = 2
    /\ commitInput = header \o <<"\n", "\n", "w", "h", "y", "\n", " ", "h", "o", "w">>

====
